---- MODULE Spec2Model ----
(***************************************************************************)
(* A model of recap: deserialization of typed records from the named      *)
(* capture groups of a regular expression (recap/src/lib.rs) and the code  *)
(* that #[derive(Recap)] generates (recap-derive/src).                     *)
(*                                                                         *)
(* Text is a sequence of one-character strings; group names, field names   *)
(* and type names are TLA+ strings.                                        *)
(***************************************************************************)
EXTENDS Integers, Sequences, FiniteSets, TLC

(***************************************************************************)
(* Characters                                                              *)
(***************************************************************************)
Digits == {"0", "1", "2", "3", "4", "5", "6", "7", "8", "9"}

Letters == {"a", "b", "c", "e", "r", "s", "t", "u", "T"}

Space == " "

Chars == Digits \cup Letters \cup {Space, ":", ",", ";", "."}

DigitVal == [d \in Digits |->
               CASE d = "0" -> 0 [] d = "1" -> 1 [] d = "2" -> 2 [] d = "3" -> 3
                 [] d = "4" -> 4 [] d = "5" -> 5 [] d = "6" -> 6 [] d = "7" -> 7
                 [] d = "8" -> 8 [] d = "9" -> 9]

\* str[from..to) as a new text
SubStr(s, from, to) == [i \in 1..(to - from) |-> s[from + i - 1]]

(***************************************************************************)
(* The regex crate: patterns are syntax trees, matching is leftmost-first  *)
(* backtracking search (Regex::captures, Regex::is_match,                  *)
(* Regex::capture_names).                                                  *)
(***************************************************************************)
Cls(S) == [t |-> "cls", set |-> S]

Cat(items) == [t |-> "cat", items |-> items]

\* greedy repetitions: x?  x*  x+
Opt(sub) == [t |-> "opt", sub |-> sub]

Star(sub) == [t |-> "star", sub |-> sub]

Plus(sub) == [t |-> "plus", sub |-> sub]

\* capture group number idx; name = NoName for an unnamed group
NoName == ""

Grp(idx, name, sub) == [t |-> "grp", idx |-> idx, name |-> name, sub |-> sub]

NoCaps == [i \in {} |-> 0]

RECURSIVE M(_, _, _, _)
RECURSIVE MCat(_, _, _, _, _)
RECURSIVE MCatEach(_, _, _, _, _)
RECURSIVE MStar(_, _, _, _)
RECURSIVE MStarEach(_, _, _, _, _, _)

\* every way node can match s from position pos, in the order a
\* backtracking matcher tries them; each is [end, caps]
M(node, s, pos, caps) ==
  CASE node.t = "cls" ->
         IF pos <= Len(s) /\ s[pos] \in node.set
         THEN << [end |-> pos + 1, caps |-> caps] >>
         ELSE << >>
    [] node.t = "cat" -> MCat(node.items, 1, s, pos, caps)
    [] node.t = "opt" ->
         M(node.sub, s, pos, caps) \o << [end |-> pos, caps |-> caps] >>
    [] node.t = "star" -> MStar(node.sub, s, pos, caps)
    [] node.t = "plus" ->
         MStarEach(M(node.sub, s, pos, caps), 1, node.sub, s, pos, TRUE)
    [] node.t = "grp" ->
         LET rs == M(node.sub, s, pos, caps)
         IN [j \in 1..Len(rs) |->
               [end |-> rs[j].end,
                caps |-> (node.idx :> [from |-> pos, to |-> rs[j].end])
                           @@ rs[j].caps]]

MCat(items, i, s, pos, caps) ==
  IF i > Len(items)
  THEN << [end |-> pos, caps |-> caps] >>
  ELSE MCatEach(M(items[i], s, pos, caps), 1, items, i, s)

MCatEach(rs, j, items, i, s) ==
  IF j > Len(rs)
  THEN << >>
  ELSE MCat(items, i + 1, s, rs[j].end, rs[j].caps)
         \o MCatEach(rs, j + 1, items, i, s)

MStar(sub, s, pos, caps) ==
  MStarEach(M(sub, s, pos, caps), 1, sub, s, pos, FALSE)
    \o << [end |-> pos, caps |-> caps] >>

\* continue the repetition after each way rs[j] of matching one more sub;
\* an iteration that matched the empty text ends the repetition (and is
\* kept only when it is the mandatory first iteration of x+)
MStarEach(rs, j, sub, s, pos, mandatory) ==
  IF j > Len(rs)
  THEN << >>
  ELSE (IF rs[j].end > pos
        THEN MStar(sub, s, rs[j].end, rs[j].caps)
        ELSE IF mandatory THEN << rs[j] >> ELSE << >>)
         \o MStarEach(rs, j + 1, sub, s, pos, mandatory)

RECURSIVE SearchFrom(_, _, _)

\* unanchored search: the first way of matching at the leftmost start
SearchFrom(re, s, pos) ==
  IF pos > Len(s) + 1
  THEN << >>
  ELSE LET rs == M(re, s, pos, NoCaps)
       IN IF rs # << >>
          THEN << [end |-> rs[1].end,
                   caps |-> (0 :> [from |-> pos, to |-> rs[1].end])
                              @@ rs[1].caps] >>
          ELSE SearchFrom(re, s, pos + 1)

\* Regex::captures: << >> for None, << caps >> for Some(caps), where caps
\* maps the number of each group that participated to its span
Captures(re, s) ==
  LET r == SearchFrom(re, s, 1)
  IN IF r = << >> THEN << >> ELSE << r[1].caps >>

\* Regex::is_match
ReIsMatch(re, s) == SearchFrom(re, s, 1) # << >>

RECURSIVE GroupsOf(_)
RECURSIVE GroupsOfItems(_, _)

\* the (number, name) pairs of the groups of a pattern
GroupsOf(node) ==
  CASE node.t = "cls" -> {}
    [] node.t = "cat" -> GroupsOfItems(node.items, 1)
    [] node.t \in {"opt", "star", "plus"} -> GroupsOf(node.sub)
    [] node.t = "grp" -> {<<node.idx, node.name>>} \cup GroupsOf(node.sub)

GroupsOfItems(items, i) ==
  IF i > Len(items) THEN {}
  ELSE GroupsOf(items[i]) \cup GroupsOfItems(items, i + 1)

\* Regex::capture_names: the name of every group in group order, the
\* implicit group 0 first; NoName stands for None
CaptureNames(re) ==
  LET gs == GroupsOf(re)
      n == Cardinality(gs)
  IN [i \in 1..(n + 1) |->
        IF i = 1 THEN NoName
        ELSE (CHOOSE g \in gs : g[1] = i - 1)[2]]

(***************************************************************************)
(* Errors: envy::Error is MissingValue(field) or Custom(message).  A       *)
(* message is kept as its format string and the values formatted into it.  *)
(***************************************************************************)
NoText == << >>

Msg(fmt, cause, text, name) ==
  [fmt |-> fmt, cause |-> cause, text |-> text, name |-> name]

\* impl Display for envy::Error
Display(e) == Msg(e.fmt, e.cause, e.text, e.name)

MissingValue(field) ==
  [kind |-> "MissingValue"] @@ Msg("missing value for field {}", "", NoText, field)

\* impl serde::de::Error for envy::Error: custom(msg) = Custom(msg.to_string())
Custom(msg) == [kind |-> "Custom"] @@ msg

Ok(v) == [ok |-> TRUE, val |-> v]

Err(e) == [ok |-> FALSE, err |-> e]

NoCapturesFmt == "No captures resolved in string '{}'"

ParseFmt == "{} while parsing value '{}' provided by {}"

(***************************************************************************)
(* str::parse for the scalar targets of forward_parsed_values              *)
(***************************************************************************)
U8Max == 255

U16Max == 65535

RECURSIVE ParseDigits(_, _, _, _)

\* core::num from_str_radix, radix 10: left to right, an invalid digit or
\* an overflow ends the parse where it is met
ParseDigits(s, i, acc, max) ==
  IF i > Len(s)
  THEN Ok(acc)
  ELSE IF s[i] \notin Digits
       THEN Err("invalid digit found in string")
       ELSE IF acc * 10 + DigitVal[s[i]] > max
            THEN Err("number too large to fit in target type")
            ELSE ParseDigits(s, i + 1, acc * 10 + DigitVal[s[i]], max)

ParseUnsigned(s, max) ==
  IF s = << >>
  THEN Err("cannot parse integer from empty string")
  ELSE IF s = << "+" >>
       THEN Err("invalid digit found in string")
       ELSE ParseDigits(s, IF s[1] = "+" THEN 2 ELSE 1, 0, max)

ParseBool(s) ==
  IF s = << "t", "r", "u", "e" >> THEN Ok(TRUE)
  ELSE IF s = << "f", "a", "l", "s", "e" >> THEN Ok(FALSE)
  ELSE Err("provided string was not true or false")

RECURSIVE DigitRun(_, _)

\* the end of the run of digits that starts at position i
DigitRun(s, i) ==
  IF i <= Len(s) /\ s[i] \in Digits THEN DigitRun(s, i + 1) ELSE i

RECURSIVE NumVal(_, _, _, _)

\* the value of the digits among s[from..to), other characters skipped
NumVal(s, from, to, acc) ==
  IF from >= to THEN acc
  ELSE NumVal(s, from + 1, to,
              IF s[from] \in Digits THEN acc * 10 + DigitVal[s[from]] ELSE acc)

RECURSIVE Normal(_, _)

\* mant * 10^exp with no trailing zero in mant
Normal(mant, exp) ==
  IF mant = 0 THEN [mant |-> 0, exp |-> 0]
  ELSE IF mant % 10 = 0 THEN Normal(mant \div 10, exp + 1)
  ELSE [mant |-> mant, exp |-> exp]

IsSign(s, i) == i <= Len(s) /\ s[i] \in {"+", "-"}

\* f64::from_str on decimal literals: [+-] digits [. digits] [e [+-] digits]
\* with a digit before the exponent (inf and nan need characters outside Chars)
ParseF64(s) ==
  IF s = << >>
  THEN Err("cannot parse float from empty string")
  ELSE
    LET p0 == IF IsSign(s, 1) THEN 2 ELSE 1
        p1 == DigitRun(s, p0)
        dot == p1 <= Len(s) /\ s[p1] = "."
        p2 == IF dot THEN DigitRun(s, p1 + 1) ELSE p1
        nfrac == IF dot THEN p2 - (p1 + 1) ELSE 0
        ndig == (p1 - p0) + nfrac
        hasExp == p2 <= Len(s) /\ s[p2] \in {"e", "E"}
        q0 == IF IsSign(s, p2 + 1) THEN p2 + 2 ELSE p2 + 1
        q1 == DigitRun(s, q0)
        expNeg == IsSign(s, p2 + 1) /\ s[p2 + 1] = "-"
        expVal == IF hasExp
                  THEN (IF expNeg THEN -1 ELSE 1) * NumVal(s, q0, q1, 0)
                  ELSE 0
        wellFormed == /\ ndig >= 1
                      /\ IF hasExp THEN q1 > q0 /\ q1 = Len(s) + 1
                                   ELSE p2 = Len(s) + 1
        n == Normal(NumVal(s, p0, p2, 0), expVal - nfrac)
    IN IF wellFormed
       THEN Ok([neg |-> s[1] = "-" /\ n.mant # 0, mant |-> n.mant, exp |-> n.exp])
       ELSE Err("invalid float literal")

\* self.1.parse::<$ty>()
Parse(k, s) ==
  CASE k = "bool" -> ParseBool(s)
    [] k = "u8" -> ParseUnsigned(s, U8Max)
    [] k = "u16" -> ParseUnsigned(s, U16Max)
    [] k = "f64" -> ParseF64(s)

ParsedKinds == {"bool", "u8", "u16", "f64"}

TextKinds == {"String", "str"}

RECURSIVE SplitFrom(_, _, _, _)

\* str::split(d): the pieces of s between occurrences of the character d
SplitFrom(s, d, from, i) ==
  IF i > Len(s)
  THEN << SubStr(s, from, i) >>
  ELSE IF s[i] = d
       THEN << SubStr(s, from, i) >> \o SplitFrom(s, d, i + 1, i + 1)
       ELSE SplitFrom(s, d, from, i + 1)

Split(s, d) == SplitFrom(s, d, 1, 1)

(***************************************************************************)
(* Target types.  A field carries its serde attributes (rename, default)   *)
(* and its field-level recap attribute (delimiter), which derive_recap     *)
(* strips from the helper struct.                                          *)
(***************************************************************************)
Scalar(k) == [k |-> k]

OptionOf(ty) == [k |-> "Option", of |-> ty]

VecOf(ty) == [k |-> "Vec", of |-> ty]

\* rename = NoName: the key is the identifier; default, delimiter: << >>
\* when not declared, << x >> when declared as x
Field(ident, ty) ==
  [ident |-> ident, ty |-> ty, rename |-> NoName, default |-> << >>,
   delimiter |-> << >>]

\* handle_deserialize: #[recap(handle_deserialize)], the type's Deserialize
\* is the one derive_impl_deserialize generates; otherwise serde's derive
Struct(name, regex, fields, handle_deserialize) ==
  [k |-> "Struct", name |-> name, regex |-> regex, fields |-> fields,
   handle_deserialize |-> handle_deserialize]

\* the key serde's derived field visitor compares a map key with
KeyOf(f) == IF f.rename = NoName THEN f.ident ELSE f.rename

None == [some |-> FALSE]

Some(v) == [some |-> TRUE, v |-> v]

(***************************************************************************)
(* impl Deserializer for Val, for Deserializer, and serde's derived        *)
(* visit_map                                                               *)
(***************************************************************************)
\* str::to_lowercase on the names the catalogue uses
Lowercase(name) ==
  CASE name = "Foo" -> "foo"
    [] name = "FirstAttribute" -> "firstattribute"
    [] name = "ThirdAttribute" -> "thirdattribute"
    [] OTHER -> name

\* FieldIndex that compares the key and the field's key in lower case
FieldIndex_IgnoreCase(fields, k) ==
  IF \E i \in 1..Len(fields) : Lowercase(KeyOf(fields[i])) = Lowercase(k)
  THEN CHOOSE i \in 1..Len(fields) : Lowercase(KeyOf(fields[i])) = Lowercase(k)
  ELSE 0

\* serde's derived __FieldVisitor::visit_str reached through VarName:
\* the index of the field whose key is k, 0 for __ignore
FieldIndex(fields, k) ==
  IF \E i \in 1..Len(fields) : KeyOf(fields[i]) = k
  THEN CHOOSE i \in 1..Len(fields) : KeyOf(fields[i]) = k
  ELSE 0

\* NamedCaptures that pairs a group that did not participate with the
\* empty text instead of leaving it out
RECURSIVE NamedCaptures_EmptyForAbsent(_, _, _, _)

NamedCaptures_EmptyForAbsent(names, caps, input, i) ==
  IF i > Len(names)
  THEN << >>
  ELSE (IF names[i] = NoName THEN << >>
        ELSE IF (i - 1) \in DOMAIN caps
        THEN << << names[i],
                   SubStr(input, caps[i - 1].from, caps[i - 1].to) >> >>
        ELSE << << names[i], NoText >> >>)
         \o NamedCaptures_EmptyForAbsent(names, caps, input, i + 1)

\* NamedCaptures that also pairs the unnamed groups that participated, under
\* the empty name
RECURSIVE NamedCaptures_EveryGroup(_, _, _, _)

NamedCaptures_EveryGroup(names, caps, input, i) ==
  IF i > Len(names)
  THEN << >>
  ELSE (IF i > 1 /\ (i - 1) \in DOMAIN caps
        THEN << << names[i],
                   SubStr(input, caps[i - 1].from, caps[i - 1].to) >> >>
        ELSE << >>)
         \o NamedCaptures_EveryGroup(names, caps, input, i + 1)

\* CaptureSet of from_captures: the (name, text) pair of every named group
\* that participated, in capture_names order
RECURSIVE NamedCaptures(_, _, _, _)

NamedCaptures(names, caps, input, i) ==
  IF i > Len(names)
  THEN << >>
  ELSE (IF names[i] # NoName /\ (i - 1) \in DOMAIN caps
        THEN << << names[i],
                   SubStr(input, caps[i - 1].from, caps[i - 1].to) >> >>
        ELSE << >>)
         \o NamedCaptures(names, caps, input, i + 1)

RECURSIVE DeVal(_, _, _)
RECURSIVE DeVal_ForwardStr(_, _, _)
RECURSIVE DeSeq(_, _, _, _, _)
RECURSIVE VisitMap(_, _, _, _)
RECURSIVE from_captures(_, _, _)

\* Finish that binds every field left without a value as absent
RECURSIVE Finish_AbsentForMissing(_, _, _, _)

Finish_AbsentForMissing(fields, slots, j, rec) ==
  IF j > Len(fields)
  THEN Ok(rec)
  ELSE LET f == fields[j]
       IN IF Len(slots[j]) = 1
          THEN Finish_AbsentForMissing(fields, slots, j + 1,
                                       (f.ident :> slots[j][1]) @@ rec)
          ELSE IF Len(f.default) = 1
          THEN Finish_AbsentForMissing(fields, slots, j + 1,
                                       (f.ident :> f.default[1]) @@ rec)
          ELSE Finish_AbsentForMissing(fields, slots, j + 1,
                                       (f.ident :> None) @@ rec)

\* serde's missing_field and the assembly of the record once the map is
\* exhausted: fields in declaration order
RECURSIVE Finish(_, _, _, _)

Finish(fields, slots, j, rec) ==
  IF j > Len(fields)
  THEN Ok(rec)
  ELSE LET f == fields[j]
       IN IF Len(slots[j]) = 1
          THEN Finish(fields, slots, j + 1, (f.ident :> slots[j][1]) @@ rec)
          ELSE IF Len(f.default) = 1
          THEN Finish(fields, slots, j + 1, (f.ident :> f.default[1]) @@ rec)
          ELSE IF f.ty.k = "Option"
          THEN Finish(fields, slots, j + 1, (f.ident :> None) @@ rec)
          ELSE Err(MissingValue(KeyOf(f)))

\* VisitMap that takes the entries of the map from the last to the first
RECURSIVE VisitMap_LastFirst(_, _, _, _)

VisitMap_LastFirst(fields, pairs, i, slots) ==
  IF i > Len(pairs)
  THEN Finish(fields, slots, 1, [x \in {} |-> 0])
  ELSE LET p == pairs[Len(pairs) + 1 - i]
           fi == FieldIndex(fields, p[1])
       IN IF fi = 0
          THEN VisitMap_LastFirst(fields, pairs, i + 1, slots)
          ELSE IF Len(slots[fi]) = 1
          THEN Err(Custom(Msg("duplicate field {}", "", NoText, p[1])))
          ELSE LET r == DeVal(fields[fi].ty, p[1], p[2])
               IN IF r.ok
                  THEN VisitMap_LastFirst(fields, pairs, i + 1,
                                          [slots EXCEPT ![fi] = << r.val >>])
                  ELSE r

\* serde's derived Visitor::visit_map over MapDeserializer<Vars>: the
\* (key, value) pairs in the order Vars yields them
VisitMap(fields, pairs, i, slots) ==
  IF i > Len(pairs)
  THEN Finish(fields, slots, 1, [x \in {} |-> 0])
  ELSE LET k == pairs[i][1]
           fi == FieldIndex(fields, k)
       IN IF fi = 0
          THEN VisitMap(fields, pairs, i + 1, slots)
          ELSE IF Len(slots[fi]) = 1
          THEN Err(Custom(Msg("duplicate field {}", "", NoText, k)))
          ELSE LET r == DeVal(fields[fi].ty, k, pairs[i][2])
               IN IF r.ok
                  THEN VisitMap(fields, pairs, i + 1,
                                [slots EXCEPT ![fi] = << r.val >>])
                  ELSE r

\* from_iter: T::deserialize(Deserializer::new(iter)) for a struct T, through
\* deserialize_any -> deserialize_map -> visit_map
from_iter(ty, pairs) ==
  VisitMap(ty.fields, pairs, 1, [j \in 1..Len(ty.fields) |-> << >>])

\* from_captures that forgets the input in its no-match error
from_captures_NoInput(re, input, ty) ==
  LET caps == Captures(re, input)
  IN IF caps = << >>
     THEN Err(Custom(Msg(NoCapturesFmt, "", NoText, NoName)))
     ELSE from_iter(ty, NamedCaptures(CaptureNames(re), caps[1], input, 1))

\* from_captures that pairs each name with the text of the whole match
from_captures_WholeMatch(re, input, ty) ==
  LET caps == Captures(re, input)
  IN IF caps = << >>
     THEN Err(Custom(Msg(NoCapturesFmt, "", input, NoName)))
     ELSE from_iter(ty, NamedCaptures(CaptureNames(re),
                                      [i \in DOMAIN caps[1] |-> caps[1][0]],
                                      input, 1))

\* from_captures that reports no match when no named group captured
from_captures_EmptyIsNoMatch(re, input, ty) ==
  LET caps == Captures(re, input)
      pairs == IF caps = << >> THEN << >>
               ELSE NamedCaptures(CaptureNames(re), caps[1], input, 1)
  IN IF pairs = << >>
     THEN Err(Custom(Msg(NoCapturesFmt, "", input, NoName)))
     ELSE from_iter(ty, pairs)

from_captures(re, input, ty) ==
  LET caps == Captures(re, input)
  IN IF caps = << >>
     THEN Err(Custom(Msg(NoCapturesFmt, "", input, NoName)))
     ELSE from_iter(ty, NamedCaptures(CaptureNames(re), caps[1], input, 1))

\* SeqDeserializer over the pieces, each a Val with the parent's key
DeSeq(ty, k, pieces, i, acc) ==
  IF i > Len(pieces)
  THEN Ok(acc)
  ELSE LET r == DeVal(ty, k, pieces[i])
       IN IF r.ok THEN DeSeq(ty, k, pieces, i + 1, Append(acc, r.val))
          ELSE r

\* DeVal whose visit_str hands the string to the helper struct as the
\* primitive visitors do, instead of matching it against the pattern
DeVal_ForwardStr(ty, k, v) ==
  CASE ty.k \in TextKinds -> Ok(v)
    [] ty.k = "char" ->
         IF Len(v) = 1 THEN Ok(v[1])
         ELSE Err(Custom(Msg("invalid value: string {:?}, expected a character",
                             "", v, NoName)))
    [] ty.k \in ParsedKinds ->
         LET r == Parse(ty.k, v)
         IN IF r.ok THEN r
            ELSE Err(Custom(Msg(ParseFmt, r.err, v, k)))
    [] ty.k = "Option" ->
         LET r == DeVal_ForwardStr(ty.of, k, v)
         IN IF r.ok THEN Ok(Some(r.val)) ELSE r
    [] ty.k = "Vec" -> DeSeq(ty.of, k, Split(v, ","), 1, << >>)
    [] ty.k = "Struct" ->
         Err(Custom(Msg("invalid type: string {:?}, expected struct {}",
                        "", v, ty.name)))

\* DeVal whose deserialize_option takes an empty value for an absent one
DeVal_EmptyIsNone(ty, k, v) ==
  CASE ty.k \in TextKinds -> Ok(v)
    [] ty.k = "char" ->
         IF Len(v) = 1 THEN Ok(v[1])
         ELSE Err(Custom(Msg("invalid value: string {:?}, expected a character",
                             "", v, NoName)))
    [] ty.k \in ParsedKinds ->
         LET r == Parse(ty.k, v)
         IN IF r.ok THEN r
            ELSE Err(Custom(Msg(ParseFmt, r.err, v, k)))
    [] ty.k = "Option" ->
         IF v = << >> THEN Ok(None)
         ELSE LET r == DeVal(ty.of, k, v)
              IN IF r.ok THEN Ok(Some(r.val)) ELSE r
    [] ty.k = "Vec" -> DeSeq(ty.of, k, Split(v, ","), 1, << >>)
    [] ty.k = "Struct" ->
         IF ty.handle_deserialize
         THEN LET r == from_captures(ty.regex, v, ty)
              IN IF r.ok THEN r ELSE Err(Custom(Display(r.err)))
         ELSE Err(Custom(Msg("invalid type: string {:?}, expected struct {}",
                             "", v, ty.name)))

\* T::deserialize(Val(k, v))
DeVal(ty, k, v) ==
  CASE ty.k \in TextKinds -> Ok(v)
    [] ty.k = "char" ->
         IF Len(v) = 1 THEN Ok(v[1])
         ELSE Err(Custom(Msg("invalid value: string {:?}, expected a character",
                             "", v, NoName)))
    [] ty.k \in ParsedKinds ->
         LET r == Parse(ty.k, v)
         IN IF r.ok THEN r
            ELSE Err(Custom(Msg(ParseFmt, r.err, v, k)))
    [] ty.k = "Option" ->
         LET r == DeVal(ty.of, k, v)
         IN IF r.ok THEN Ok(Some(r.val)) ELSE r
    [] ty.k = "Vec" -> DeSeq(ty.of, k, Split(v, ","), 1, << >>)
    [] ty.k = "Struct" ->
         IF ty.handle_deserialize
         THEN LET r == from_captures(ty.regex, v, ty)
              IN IF r.ok THEN r ELSE Err(Custom(Display(r.err)))
         ELSE Err(Custom(Msg("invalid type: string {:?}, expected struct {}",
                             "", v, ty.name)))

(***************************************************************************)
(* Binding from another format.  A self-describing deserializer hands the  *)
(* visitor a value of serde's data model; the error type is the format's.  *)
(***************************************************************************)
DStr(v) == [s |-> "str", v |-> v]

DU64(n) == [s |-> "u64", v |-> n]

DBool(b) == [s |-> "bool", v |-> b]

DF64(x) == [s |-> "f64", v |-> x]

\* a map: its (key, value) entries in document order
DMap(entries) == [s |-> "map", v |-> entries]

\* D::Error of the format
FormatError(msg) == [kind |-> "Format"] @@ msg

\* serde::de::Error::invalid_type(unexpected, &expected)
InvalidType(d, expected) ==
  FormatError(Msg("invalid type: {}, expected {}", d.s, NoText, expected))

RECURSIVE Deserialize(_, _)
RECURSIVE VisitMapAccess(_, _, _, _)

\* the assembly of the record by the same derived visit_map, its
\* missing_field error built by the format's error type
FinishAccess_NoDefault(fields, slots) ==
  LET r == Finish([j \in 1..Len(fields) |-> [fields[j] EXCEPT !.default = << >>]],
                  slots, 1, [x \in {} |-> 0])
  IN IF r.ok THEN r
     ELSE Err(FormatError(Msg("missing field {}", "", NoText, r.err.name)))

FinishAccess(fields, slots) ==
  LET r == Finish(fields, slots, 1, [x \in {} |-> 0])
  IN IF r.ok THEN r
     ELSE Err(FormatError(Msg("missing field {}", "", NoText, r.err.name)))

\* the helper struct's derived Visitor::visit_map over the format's
\* MapAccess: the entries in document order
VisitMapAccess(fields, entries, i, slots) ==
  IF i > Len(entries)
  THEN FinishAccess(fields, slots)
  ELSE LET k == entries[i][1]
           fi == FieldIndex(fields, k)
       IN IF fi = 0
          THEN VisitMapAccess(fields, entries, i + 1, slots)
          ELSE IF Len(slots[fi]) = 1
          THEN Err(FormatError(Msg("duplicate field {}", "", NoText, k)))
          ELSE LET r == Deserialize(fields[fi].ty, entries[i][2])
               IN IF r.ok
                  THEN VisitMapAccess(fields, entries, i + 1,
                                      [slots EXCEPT ![fi] = << r.val >>])
                  ELSE r

\* T::deserialize(deserializer) for a self-describing deserializer holding d.
\* For a handle_deserialize struct: deserialize_any(__Visitor), whose
\* visit_map forwards the MapAccess to the helper struct and whose visit_str
\* matches the string against the type's own pattern.
Deserialize(ty, d) ==
  CASE ty.k \in TextKinds ->
         IF d.s = "str" THEN Ok(d.v) ELSE Err(InvalidType(d, "a string"))
    [] ty.k = "char" ->
         IF d.s = "str" /\ Len(d.v) = 1 THEN Ok(d.v[1])
         ELSE Err(InvalidType(d, "a character"))
    [] ty.k = "bool" ->
         IF d.s = "bool" THEN Ok(d.v) ELSE Err(InvalidType(d, "a boolean"))
    [] ty.k \in {"u8", "u16"} ->
         IF d.s # "u64" THEN Err(InvalidType(d, ty.k))
         ELSE IF d.v <= (IF ty.k = "u8" THEN U8Max ELSE U16Max) THEN Ok(d.v)
         ELSE Err(FormatError(Msg("invalid value: integer {}, expected {}",
                                  "", NoText, ty.k)))
    [] ty.k = "f64" ->
         IF d.s = "f64" THEN Ok(d.v)
         ELSE IF d.s = "u64"
         THEN LET n == Normal(d.v, 0)
              IN Ok([neg |-> FALSE, mant |-> n.mant, exp |-> n.exp])
         ELSE Err(InvalidType(d, "f64"))
    [] ty.k = "Option" ->
         LET r == Deserialize(ty.of, d)
         IN IF r.ok THEN Ok(Some(r.val)) ELSE r
    [] ty.k = "Vec" -> Err(InvalidType(d, "a sequence"))
    [] ty.k = "Struct" ->
         IF d.s = "map"
         THEN VisitMapAccess(ty.fields, d.v, 1,
                             [j \in 1..Len(ty.fields) |-> << >>])
         ELSE IF d.s = "str" /\ ty.handle_deserialize
         THEN LET r == from_captures(ty.regex, d.v, ty)
              IN IF r.ok THEN r
                 ELSE Err(FormatError(Display(r.err)))
         ELSE Err(InvalidType(d, "struct"))

(***************************************************************************)
(* Enums.  derive_recap generates, for an enum, a try_from and a from_str  *)
(* that try the variants in declaration order, each against its own        *)
(* pattern.                                                                *)
(***************************************************************************)
\* kind: "Named" (V { f: T, .. }), "Unnamed" (V(T)) or "Unit" (V)
Variant(name, regex, kind, fields) ==
  [name |-> name, regex |-> regex, kind |-> kind, fields |-> fields]

Enum(name, variants) == [k |-> "Enum", name |-> name, variants |-> variants]

\* a call that does not return: Option::unwrap on None, Result::unwrap on Err
Panicked(msg) ==
  [ok |-> FALSE, err |-> [kind |-> "Panic"] @@ Msg(msg, "", NoText, NoName)]

UnwrapNone == "called Option::unwrap() on a None value"

\* caps.name(name).map(as_str): << >> for None, << text >> for Some
CapsName(re, caps, input, name) ==
  LET names == CaptureNames(re)
      hits == {i \in 2..Len(names) : names[i] = name /\ (i - 1) \in DOMAIN caps}
  IN IF hits = {} THEN << >>
     ELSE LET i == CHOOSE i \in hits : TRUE
          IN << SubStr(input, caps[i - 1].from, caps[i - 1].to) >>

\* caps.get(i).map(as_str)
CapsGet(caps, input, i) ==
  IF i \in DOMAIN caps THEN << SubStr(input, caps[i].from, caps[i].to) >>
  ELSE << >>

\* inner.parse::<T>() for the type of a tuple variant's field
FromStrValue(kind, text) ==
  CASE kind \in TextKinds -> Ok(text)
    [] kind = "char" ->
         IF Len(text) = 1 THEN Ok(text[1]) ELSE Err("invalid char")
    [] kind \in ParsedKinds -> Parse(kind, text)

\* Name::Variant { f: caps.name("f").unwrap().as_str().try_into().unwrap(), .. }
\* for fields whose type converts from &str without failing
NamedArm(v, caps, input) ==
  IF \E i \in 1..Len(v.fields) :
       CapsName(v.regex, caps, input, v.fields[i].ident) = << >>
  THEN Panicked(UnwrapNone)
  ELSE Ok([variant |-> v.name,
           val |-> [id \in {v.fields[i].ident : i \in 1..Len(v.fields)} |->
                      CapsName(v.regex, caps, input, id)[1]]])

\* try_parse_regexes that takes the last variant when none matched
RECURSIVE try_parse_regexes_LastResort(_, _, _)

try_parse_regexes_LastResort(en, s, i) ==
  IF i > Len(en.variants)
  THEN Ok([variant |-> en.variants[Len(en.variants)].name, val |-> << >>])
  ELSE LET v == en.variants[i]
           caps == Captures(v.regex, s)
       IN CASE v.kind = "Named" ->
                 IF caps # << >> THEN NamedArm(v, caps[1], s)
                 ELSE try_parse_regexes_LastResort(en, s, i + 1)
            [] v.kind = "Unnamed" ->
                 IF caps = << >> THEN try_parse_regexes_LastResort(en, s, i + 1)
                 ELSE LET inner == CapsGet(caps[1], s, 1)
                      IN IF inner = << >> THEN Panicked(UnwrapNone)
                         ELSE LET r == FromStrValue(v.fields[1].ty.k, inner[1])
                              IN IF r.ok
                                 THEN Ok([variant |-> v.name, val |-> r.val])
                                 ELSE try_parse_regexes_LastResort(en, s, i + 1)
            [] v.kind = "Unit" ->
                 IF ReIsMatch(v.regex, s)
                 THEN Ok([variant |-> v.name, val |-> << >>])
                 ELSE try_parse_regexes_LastResort(en, s, i + 1)

\* #(#try_parse_regexes)* followed by Err(Custom("Uh Oh")): the arms of the
\* variants from the i-th on, in declaration order
RECURSIVE try_parse_regexes(_, _, _)

try_parse_regexes(en, s, i) ==
  IF i > Len(en.variants)
  THEN Err(Custom(Msg("Uh Oh", "", NoText, NoName)))
  ELSE LET v == en.variants[i]
           caps == Captures(v.regex, s)
       IN CASE v.kind = "Named" ->
                 IF caps # << >> THEN NamedArm(v, caps[1], s)
                 ELSE try_parse_regexes(en, s, i + 1)
            [] v.kind = "Unnamed" ->
                 IF caps = << >> THEN try_parse_regexes(en, s, i + 1)
                 ELSE LET inner == CapsGet(caps[1], s, 1)
                      IN IF inner = << >> THEN Panicked(UnwrapNone)
                         ELSE LET r == FromStrValue(v.fields[1].ty.k, inner[1])
                              IN IF r.ok
                                 THEN Ok([variant |-> v.name, val |-> r.val])
                                 ELSE try_parse_regexes(en, s, i + 1)
            [] v.kind = "Unit" ->
                 IF ReIsMatch(v.regex, s)
                 THEN Ok([variant |-> v.name, val |-> << >>])
                 ELSE try_parse_regexes(en, s, i + 1)

(***************************************************************************)
(* Character classes and the patterns and types of the crate's examples    *)
(* and tests                                                               *)
(***************************************************************************)
NotSpace == Chars \ {Space}

Word == Letters \cup Digits

NotColon == Chars \ {":"}

\* (?P<foo>\S+)\s(?P<bar>\S+)
ExampleRe ==
  Cat(<< Grp(1, "foo", Plus(Cls(NotSpace))), Cls({Space}),
         Grp(2, "bar", Plus(Cls(NotSpace))) >>)

Example ==
  Struct("Example", ExampleRe,
         << Field("foo", Scalar("String")), Field("bar", Scalar("String")) >>,
         FALSE)

ExampleBorrowed ==
  Struct("ExampleBorrowed", ExampleRe,
         << Field("foo", Scalar("str")), Field("bar", Scalar("str")) >>,
         FALSE)

\* (?P<foo>\S+)\s+(?P<bar>\S+)\s+(?P<baz>\S+)
LogEntryRe ==
  Cat(<< Grp(1, "foo", Plus(Cls(NotSpace))), Plus(Cls({Space})),
         Grp(2, "bar", Plus(Cls(NotSpace))), Plus(Cls({Space})),
         Grp(3, "baz", Plus(Cls(NotSpace))) >>)

\* (?P<foo>\S+)\s+(?P<bar>\S+)\s+(?P<baz>\S+)?
LogEntryOptionalRe ==
  Cat(<< Grp(1, "foo", Plus(Cls(NotSpace))), Plus(Cls({Space})),
         Grp(2, "bar", Plus(Cls(NotSpace))), Plus(Cls({Space})),
         Opt(Grp(3, "baz", Plus(Cls(NotSpace)))) >>)

\* test
TestLiteralRe ==
  Cat(<< Cls({"t"}), Cls({"e"}), Cls({"s"}), Cls({"t"}) >>)

\* .+
AnyRe == Plus(Cls(Chars))

LogEntry ==
  Struct("LogEntry", LogEntryRe,
         << Field("foo", Scalar("String")), Field("bar", Scalar("String")),
            Field("baz", Scalar("String")) >>,
         FALSE)

LogEntryOptional ==
  Struct("LogEntryOptional", LogEntryOptionalRe,
         << Field("foo", Scalar("String")), Field("bar", Scalar("String")),
            Field("baz", OptionOf(Scalar("String"))) >>,
         FALSE)

LogEntryBorrowed ==
  Struct("LogEntryBorrowed", LogEntryRe,
         << Field("foo", Scalar("str")), Field("bar", Scalar("str")),
            Field("baz", Scalar("str")) >>,
         FALSE)

\* (?P<first>\w+):(?P<second>\d+)
Test ==
  Struct("Test",
         Cat(<< Grp(1, "first", Plus(Cls(Word))), Cls({":"}),
                Grp(2, "second", Plus(Cls(Digits))) >>),
         << Field("first", Scalar("String")), Field("second", Scalar("u16")) >>,
         FALSE)

\* (?P<foo>\w+):(?P<bar>\d+)
Inner ==
  Struct("Inner",
         Cat(<< Grp(1, "foo", Plus(Cls(Word))), Cls({":"}),
                Grp(2, "bar", Plus(Cls(Digits))) >>),
         << Field("foo", Scalar("String")), Field("bar", Scalar("u16")) >>,
         TRUE)

\* (?P<first>[^ ]+)( (?P<second>[^ ]+))?
Outer ==
  Struct("Outer",
         Cat(<< Grp(1, "first", Plus(Cls(NotSpace))),
                Opt(Grp(2, NoName,
                        Cat(<< Cls({Space}),
                               Grp(3, "second", Plus(Cls(NotSpace))) >>))) >>),
         << Field("first", Inner), Field("second", OptionOf(Inner)) >>,
         TRUE)

\* default_str()
SomeDefault ==
  << "S", "o", "m", "e", " ", "d", "e", "f", "a", "u", "l", "t" >>

\* ((?P<FirstAttribute>\w+):)?(?P<second_rename>\d+):(?P<ThirdAttribute>\w+)
\* with #[serde(rename_all = "PascalCase")], a default and a rename
Attrs ==
  Struct("Attrs",
         Cat(<< Opt(Grp(1, NoName,
                        Cat(<< Grp(2, "FirstAttribute", Plus(Cls(Word))),
                               Cls({":"}) >>))),
                Grp(3, "second_rename", Plus(Cls(Digits))), Cls({":"}),
                Grp(4, "ThirdAttribute", Plus(Cls(Word))) >>),
         << [Field("first_attribute", Scalar("String"))
               EXCEPT !.rename = "FirstAttribute", !.default = << SomeDefault >>],
            [Field("second_attribute", Scalar("u16"))
               EXCEPT !.rename = "second_rename"],
            [Field("third_attribute", Scalar("String"))
               EXCEPT !.rename = "ThirdAttribute"] >>,
         TRUE)

\* the Outer of custom_deserialize_works_with_other_formats:
\* (?P<first>[^ ]+)( (?P<second>[^ ]+))? (?P<third>[^ ]+)
FormatsOuter ==
  Struct("FormatsOuter",
         Cat(<< Grp(1, "first", Plus(Cls(NotSpace))),
                Opt(Grp(2, NoName,
                        Cat(<< Cls({Space}),
                               Grp(3, "second", Plus(Cls(NotSpace))) >>))),
                Cls({Space}), Grp(4, "third", Plus(Cls(NotSpace))) >>),
         << Field("first", Attrs), Field("second", OptionOf(Attrs)),
            Field("third", OptionOf(Attrs)) >>,
         TRUE)

(***************************************************************************)
(* Records that exercise each target of impl Deserializer for Val: a       *)
(* required and an optional field of one scalar type, and a sequence field *)
(***************************************************************************)
ScalarKinds == {"String", "str", "char", "bool", "u8", "u16", "f64"}

\* (?P<x>[^:]*)(:(?P<y>[^:]*))?
ScalarRe ==
  Cat(<< Grp(1, "x", Star(Cls(NotColon))),
         Opt(Grp(2, NoName,
                 Cat(<< Cls({":"}), Grp(3, "y", Star(Cls(NotColon))) >>))) >>)

ScalarRec(kind) ==
  Struct("ScalarRec", ScalarRe,
         << Field("x", Scalar(kind)), Field("y", OptionOf(Scalar(kind))) >>,
         FALSE)

\* the same pattern with both fields required: y has no capture when its
\* group does not participate
RequiredRec(kind) ==
  Struct("RequiredRec", ScalarRe,
         << Field("x", Scalar(kind)), Field("y", Scalar(kind)) >>,
         FALSE)

\* the same pattern with the fields declared in the other order than their
\* groups
ReversedRec(kind) ==
  Struct("ReversedRec", ScalarRe,
         << Field("y", Scalar(kind)), Field("x", Scalar(kind)) >>,
         FALSE)

\* (?P<outer>.+): a record whose nested record has nested records
Wrapper ==
  Struct("Wrapper", Grp(1, "outer", Plus(Cls(Chars))),
         << Field("outer", Outer) >>, TRUE)

\* (?P<foo>\w+)(:(?P<bar>\d+))?: a handle_deserialize record whose required
\* field bar has a group that need not participate
Partial ==
  Struct("Partial",
         Cat(<< Grp(1, "foo", Plus(Cls(Word))),
                Opt(Grp(2, NoName,
                        Cat(<< Cls({":"}),
                               Grp(3, "bar", Plus(Cls(Digits))) >>))) >>),
         << Field("foo", Scalar("String")), Field("bar", Scalar("u16")) >>,
         TRUE)

\* (?P<inner>.+): a record with a nested Partial
Holder ==
  Struct("Holder", Grp(1, "inner", Plus(Cls(Chars))),
         << Field("inner", Partial) >>, TRUE)

\* (?P<Foo>\w+):(?P<bar>\d+): the group of the required field foo is named
\* in another letter case
CaseRec ==
  Struct("CaseRec",
         Cat(<< Grp(1, "Foo", Plus(Cls(Word))), Cls({":"}),
                Grp(2, "bar", Plus(Cls(Digits))) >>),
         << Field("foo", Scalar("String")), Field("bar", Scalar("u16")) >>,
         FALSE)

\* (?P<firstattribute>\w+):(?P<second_rename>\d+): the group of a renamed
\* field with a default is named in another letter case
CaseDefault ==
  Struct("CaseDefault",
         Cat(<< Grp(1, "firstattribute", Plus(Cls(Word))), Cls({":"}),
                Grp(2, "second_rename", Plus(Cls(Digits))) >>),
         << [Field("first_attribute", Scalar("String"))
               EXCEPT !.rename = "FirstAttribute", !.default = << SomeDefault >>],
            [Field("second_attribute", Scalar("u16"))
               EXCEPT !.rename = "second_rename"] >>,
         FALSE)

\* (?P<xs>.*)
SeqRe == Grp(1, "xs", Star(Cls(Chars)))

SeqRec(kind) ==
  Struct("SeqRec", SeqRe, << Field("xs", VecOf(Scalar(kind))) >>, FALSE)

\* a sequence field that declares #[recap(delimiter = ";")]
SeqDelimRec ==
  Struct("SeqDelimRec", SeqRe,
         << [Field("xs", VecOf(Scalar("String"))) EXCEPT !.delimiter = << ";" >>] >>,
         FALSE)

\* the types that derive Recap
DerivedTypes ==
  {Example, ExampleBorrowed, Test, Inner, Outer, Wrapper, Attrs, FormatsOuter,
   Partial, Holder, CaseRec, CaseDefault, SeqDelimRec}
    \cup {ScalarRec(k) : k \in ScalarKinds}
    \cup {RequiredRec(k) : k \in ScalarKinds}
    \cup {ReversedRec(k) : k \in {"String", "u8", "bool"}}
    \cup {SeqRec(k) : k \in {"String", "u8", "char"}}

\* an enum whose tuple variant's pattern matches more than its type parses
\* and whose struct variant has a group that need not participate:
\*   Num(u8)                  (?P<n>\w+)
\*   Pair { key, val }        (?P<key>\w+)(:(?P<val>\w+))?
\*   Sep                      :
Token ==
  Enum("Token",
       << Variant("Num", Grp(1, "n", Plus(Cls(Word))), "Unnamed",
                  << Field("0", Scalar("u8")) >>),
          Variant("Pair",
                  Cat(<< Grp(1, "key", Plus(Cls(Word))),
                         Opt(Grp(2, NoName,
                                 Cat(<< Cls({":"}),
                                        Grp(3, "val", Plus(Cls(Word))) >>))) >>),
                  "Named",
                  << Field("key", Scalar("String")),
                     Field("val", Scalar("String")) >>),
          Variant("Sep", Cls({":"}), "Unit", << >>) >>)

\* an enum that starts with a unit variant and ends with a catch-all:
\*   Comma                    ,
\*   Letters { w }            (?P<w>a+)
\*   Tagged(u16)              (?P<n>\d+)?:
\*   Rest(String)             (?P<r>.+)
Shape ==
  Enum("Shape",
       << Variant("Comma", Cls({","}), "Unit", << >>),
          Variant("Letters", Grp(1, "w", Plus(Cls({"a"}))), "Named",
                  << Field("w", Scalar("String")) >>),
          Variant("Tagged",
                  Cat(<< Opt(Grp(1, "n", Plus(Cls(Digits)))), Cls({":"}) >>),
                  "Unnamed", << Field("0", Scalar("u16")) >>),
          Variant("Rest", Grp(1, "r", Plus(Cls(Chars))), "Unnamed",
                  << Field("0", Scalar("String")) >>) >>)

\* the enums that derive Recap
EnumTypes == {Token, Shape}

\* has_lifetimes for an enum
EnumHasLifetimes(en) ==
  \E i \in 1..Len(en.variants) :
    \E j \in 1..Len(en.variants[i].fields) :
      en.variants[i].fields[j].ty.k = "str"

\* the types and patterns handed to from_captures directly
PlainTypes == {LogEntry, LogEntryOptional, LogEntryBorrowed}

PlainRegexes == {LogEntryRe, LogEntryOptionalRe, TestLiteralRe, AnyRe}

\* has_lifetimes: the type borrows from the input
HasLifetimes(ty) == \E i \in 1..Len(ty.fields) : ty.fields[i].ty.k = "str"

(***************************************************************************)
(* Inputs                                                                  *)
(***************************************************************************)
MaxLen == 3

Alphabet == {"a", "1", ":", Space}

ExtraInputs ==
  { << "t", "r", "u", "e" >>, << "T", "r", "u", "e" >>,
    << "2", "5", "6" >>, << "2", "5", "5" >>, << "1", ".", "5" >>,
    << "a", ";", "b" >>, << "a", ",", "b", ",", "c" >>,
    << "a", "b", "c", ":", "1", "2", "3" >>,
    << "a", ":", "1", " ", "b", ":", "2" >>,
    << "a", " ", "b", " " >>, << "a", " ", "b", " ", "c" >>,
    << "t", "e", "s", "t" >>,
    << "1", ":", "t", "r", "u", "e" >>, << "a", ":", "a", ":", "1" >>,
    << "1", ":", "a", " ", "1", ":", "a" >>,
    << "a", ":", "1", ":", "a", " ", "1", ":", "a" >>,
    << "1", ":", "a", " ", "a", " ", "1", ":", "a" >>,
    << "," >>, << "a", "," >>, << ",", "a" >>, << " ", "," >>, << ",", "," >>,
    << "1", ",", "1" >>, << "1", ",", "a" >>, << "a", ",", "a" >> }

Inputs == UNION {[1..n -> Alphabet] : n \in 0..MaxLen} \cup ExtraInputs

RECURSIVE DataOf(_, _, _)
RECURSIVE EntriesOf(_, _, _)

\* the value a document holds for a field of type ty whose content is text:
\* a number or a boolean where the text is one, a map for a nested record
\* (when nest) whose pattern matches the text, the string otherwise
DataOf(ty, text, nest) ==
  CASE ty.k \in TextKinds \cup {"char", "Vec"} -> DStr(text)
    [] ty.k \in {"u8", "u16"} ->
         LET r == ParseUnsigned(text, U16Max)
         IN IF r.ok THEN DU64(r.val) ELSE DStr(text)
    [] ty.k = "bool" ->
         LET r == ParseBool(text)
         IN IF r.ok THEN DBool(r.val) ELSE DStr(text)
    [] ty.k = "f64" ->
         LET r == ParseF64(text)
         IN IF r.ok THEN DF64(r.val) ELSE DStr(text)
    [] ty.k = "Option" -> DataOf(ty.of, text, nest)
    [] ty.k = "Struct" ->
         IF nest /\ Captures(ty.regex, text) # << >>
         THEN DMap(EntriesOf(ty, text, nest))
         ELSE DStr(text)

\* the document with the key-to-value content of the captures of ty's
\* pattern in s
EntriesOf(ty, s, nest) ==
  LET pairs == NamedCaptures(CaptureNames(ty.regex), Captures(ty.regex, s)[1],
                             s, 1)
  IN [i \in 1..Len(pairs) |->
        LET fi == FieldIndex(ty.fields, pairs[i][1])
        IN << pairs[i][1],
              IF fi = 0 THEN DStr(pairs[i][2])
              ELSE DataOf(ty.fields[fi].ty, pairs[i][2], nest) >>]

\* the types that declare #[recap(handle_deserialize)]
HandleDeserializeTypes == {ty \in DerivedTypes : ty.handle_deserialize}

(***************************************************************************)
(* Build time: derive_recap validates the item it is applied to            *)
(***************************************************************************)
\* regex.capture_names().flatten().count(): the number of named groups
NamedGroupCount(re) ==
  Cardinality({i \in 1..Len(CaptureNames(re)) : CaptureNames(re)[i] # NoName})

\* a struct without named fields
TupleStruct(name, regex, fields) ==
  [k |-> "TupleStruct", name |-> name, regex |-> regex, fields |-> fields]

\* validate that checks structs only
validate_StructsOnly(item) ==
  CASE item.k = "Struct" -> NamedGroupCount(item.regex) = Len(item.fields)
    [] item.k = "TupleStruct" -> FALSE
    [] item.k = "Enum" -> TRUE

\* validate: TRUE when it returns, FALSE when it panics (the build fails)
validate(item) ==
  CASE item.k = "Struct" -> NamedGroupCount(item.regex) = Len(item.fields)
    [] item.k = "TupleStruct" -> FALSE
    [] item.k = "Enum" ->
         \A i \in 1..Len(item.variants) :
           LET v == item.variants[i]
           IN v.kind \in {"Named", "Unnamed"} =>
                NamedGroupCount(v.regex) = Len(v.fields)

\* a struct with as many named groups as fields, under other names
Misnamed ==
  Struct("Misnamed", ScalarRe,
         << Field("foo", Scalar("String")),
            Field("bar", OptionOf(Scalar("String"))) >>,
         FALSE)

\* structs whose group and field counts differ, and a tuple struct
TooFew == Struct("TooFew", AnyRe, << Field("foo", Scalar("String")) >>, FALSE)

TooMany ==
  Struct("TooMany", ScalarRe, << Field("x", Scalar("String")) >>, FALSE)

Tuple == TupleStruct("Tuple", SeqRe, << Field("0", Scalar("String")) >>)

\*   A(u8)                    (?P<n>\d+)
\*   B { w }                  ,
BadEnum ==
  Enum("BadEnum",
       << Variant("A", Grp(1, "n", Plus(Cls(Digits))), "Unnamed",
                  << Field("0", Scalar("u8")) >>),
          Variant("B", Cls({","}), "Named",
                  << Field("w", Scalar("String")) >>) >>)

\*   U                        (?P<n>\d+)
\*   V(u8, u8)                .
TwoFields ==
  Enum("TwoFields",
       << Variant("U", Grp(1, "n", Plus(Cls(Digits))), "Unit", << >>),
          Variant("V", Cls(Chars), "Unnamed",
                  << Field("0", Scalar("u8")), Field("1", Scalar("u8")) >>) >>)

\* the items #[derive(Recap)] is applied to
Declarations ==
  DerivedTypes \cup EnumTypes
    \cup {Misnamed, TooFew, TooMany, Tuple, BadEnum, TwoFields}

(***************************************************************************)
(* The build of a program and the calls it makes                           *)
(***************************************************************************)
VARIABLES call, result, built, statics, threads, entered

vars == << call, result, built, statics, threads, entered >>

NoCall == [fn |-> "none"]

NoResult == [ok |-> FALSE, err |-> "none"]

NoBuild == [accepted |-> FALSE, item |-> [k |-> "none"]]

\* nothing is built and no call is in progress
(***************************************************************************)
(* The statics of the generated code and the threads that call it.  Each   *)
(* generated function declares its own lazy_static RE; a thread's call is  *)
(* followed step by step: the static, the match, the bind.                 *)
(***************************************************************************)
NumThreads == 2

Threads == 1..NumThreads

\* the functions derive_recap generates for a struct, each with a static RE
Sites == {"try_from", "from_str", "is_match", "visit_str"}

\* a lazy_static before its first dereference
Uninit == [state |-> "uninit", compiles |-> 0, val |-> [k |-> "none"]]

\* a thread outside any call
Idle ==
  [pc |-> "idle", fn |-> "none", input |-> << >>, caps |-> << >>,
   result |-> NoResult]

Init ==
  /\ call = NoCall
  /\ result = NoResult
  /\ built = NoBuild
  /\ statics = [site \in Sites |-> Uninit]
  /\ threads = [t \in Threads |-> Idle]
  /\ entered = {}

\* derive_recap expands on an item: validate runs before any code is
\* generated, and a panic in it fails the build
DeriveRecap ==
  /\ call = NoCall
  /\ built = NoBuild
  /\ \E item \in Declarations :
       built' = [accepted |-> validate(item), item |-> item]
  /\ UNCHANGED << call, result, statics, threads, entered >>

\* impl TryFrom<&str> generated by derive_recap for a struct
TryFrom ==
  /\ call = NoCall
  /\ built.accepted /\ built.item.k = "Struct"
  /\ \E s \in Inputs :
       /\ call' = [fn |-> "try_from", ty |-> built.item,
                   re |-> built.item.regex, input |-> s]
       /\ result' = from_captures(built.item.regex, s, built.item)
  /\ UNCHANGED << built, statics, threads, entered >>

\* impl FromStr generated by derive_recap for a struct without lifetimes
FromStr ==
  /\ call = NoCall
  /\ built.accepted /\ built.item.k = "Struct"
  /\ ~HasLifetimes(built.item)
  /\ \E s \in Inputs :
       /\ call' = [fn |-> "from_str", ty |-> built.item,
                   re |-> built.item.regex, input |-> s]
       /\ result' = from_captures(built.item.regex, s, built.item)
  /\ UNCHANGED << built, statics, threads, entered >>

\* fn is_match generated by derive_recap for a struct
IsMatch ==
  /\ call = NoCall
  /\ built.accepted /\ built.item.k = "Struct"
  /\ \E s \in Inputs :
       /\ call' = [fn |-> "is_match", ty |-> built.item,
                   re |-> built.item.regex, input |-> s]
       /\ result' = Ok(ReIsMatch(built.item.regex, s))
  /\ UNCHANGED << built, statics, threads, entered >>

\* recap::from_captures called with the caller's own Regex, in a program
\* that derives nothing
FromCaptures ==
  /\ call = NoCall
  /\ built = NoBuild
  /\ \E re \in PlainRegexes, ty \in PlainTypes, s \in Inputs :
       /\ call' = [fn |-> "from_captures", ty |-> ty, re |-> re, input |-> s]
       /\ result' = from_captures(re, s, ty)
  /\ UNCHANGED << built, statics, threads, entered >>

\* a format's from_str::<T> for a handle_deserialize type T on a document
\* that holds a map: T::deserialize -> deserialize_any -> visit_map
FromFormat ==
  /\ call = NoCall
  /\ built.accepted /\ built.item \in HandleDeserializeTypes
  /\ \E s \in Inputs, nest \in BOOLEAN :
       /\ Captures(built.item.regex, s) # << >>
       /\ call' = [fn |-> "deserialize", ty |-> built.item,
                   re |-> built.item.regex, input |-> s,
                   doc |-> EntriesOf(built.item, s, nest)]
       /\ result' = Deserialize(built.item,
                                DMap(EntriesOf(built.item, s, nest)))
  /\ UNCHANGED << built, statics, threads, entered >>

\* impl TryFrom<&str> generated by derive_recap for an enum
EnumTryFrom ==
  /\ call = NoCall
  /\ built.accepted /\ built.item.k = "Enum"
  /\ \E s \in Inputs :
       /\ call' = [fn |-> "enum_try_from", ty |-> built.item, input |-> s]
       /\ result' = try_parse_regexes(built.item, s, 1)
  /\ UNCHANGED << built, statics, threads, entered >>

\* impl FromStr generated by derive_recap for an enum without lifetimes
EnumFromStr ==
  /\ call = NoCall
  /\ built.accepted /\ built.item.k = "Enum"
  /\ ~EnumHasLifetimes(built.item)
  /\ \E s \in Inputs :
       /\ call' = [fn |-> "enum_from_str", ty |-> built.item, input |-> s]
       /\ result' = try_parse_regexes(built.item, s, 1)
  /\ UNCHANGED << built, statics, threads, entered >>

\* fn is_match generated by derive_recap for an enum: true when the
\* pattern of some variant matches
EnumIsMatch ==
  /\ call = NoCall
  /\ built.accepted /\ built.item.k = "Enum"
  /\ \E s \in Inputs :
       /\ call' = [fn |-> "enum_is_match", ty |-> built.item, input |-> s]
       /\ result' = Ok(\E i \in 1..Len(built.item.variants) :
                         ReIsMatch(built.item.variants[i].regex, s))
  /\ UNCHANGED << built, statics, threads, entered >>

\* the caller takes the result; the next call starts from nothing
Return ==
  /\ call # NoCall
  /\ call' = NoCall
  /\ result' = NoResult
  /\ UNCHANGED << built, statics, threads, entered >>

Next ==
  \/ DeriveRecap
  \/ TryFrom \/ FromStr \/ IsMatch \/ FromCaptures \/ FromFormat
  \/ EnumTryFrom \/ EnumFromStr \/ EnumIsMatch
  \/ Return

Spec == Init /\ [][Next]_vars

(***************************************************************************)
(* Threads calling the generated functions of one derived struct           *)
(***************************************************************************)
\* the derived structs the threads call
ThreadTypes == {Inner}

ThreadInputs == {<< "a", ":", "1" >>, << "a" >>}

\* the functions generated for a struct: from_str only without lifetimes,
\* visit_str only with handle_deserialize
EntryPoints(ty) ==
  {"try_from", "is_match"}
    \cup (IF HasLifetimes(ty) THEN {} ELSE {"from_str"})
    \cup (IF ty.handle_deserialize THEN {"visit_str"} ELSE {})

\* a frame that every call shares
Frame_Shared(t) == 1

\* the stack frame that holds a call's local caps: the calling thread's own
Frame(t) == t

\* from_captures after re.captures(input) returned caps
FromCaps(re, input, ty, caps) ==
  IF caps = << >>
  THEN Err(Custom(Msg(NoCapturesFmt, "", input, NoName)))
  ELSE from_iter(ty, NamedCaptures(CaptureNames(re), caps[1], input, 1))

ThreadInit ==
  /\ call = NoCall
  /\ result = NoResult
  /\ built \in {[accepted |-> validate(ty), item |-> ty] : ty \in ThreadTypes}
  /\ statics = [site \in Sites |-> Uninit]
  /\ threads = [t \in Threads |-> Idle]
  /\ entered = {}

\* a thread enters one of the generated functions
ThreadCall(t) ==
  /\ threads[t].pc = "idle"
  /\ built.accepted
  /\ \E fn \in EntryPoints(built.item), s \in ThreadInputs :
       /\ threads' = [threads EXCEPT ![t] =
                        [Idle EXCEPT !.pc = "static", !.fn = fn, !.input = s]]
       /\ entered' = entered \cup {fn}
  /\ UNCHANGED << call, result, built, statics >>

\* lazy_static: the first thread to dereference RE runs Regex::new
StaticInit(t) ==
  /\ threads[t].pc = "static"
  /\ statics[threads[t].fn].state = "uninit"
  /\ statics' = [statics EXCEPT ![threads[t].fn] =
                   [@ EXCEPT !.state = "running", !.compiles = @ + 1]]
  /\ threads' = [threads EXCEPT ![t].pc = "init"]
  /\ UNCHANGED << call, result, built, entered >>

\* lazy_static: the initializer returns and the static holds the Regex
StaticReady(t) ==
  /\ threads[t].pc = "init"
  /\ statics' = [statics EXCEPT ![threads[t].fn] =
                   [@ EXCEPT !.state = "ready", !.val = built.item.regex]]
  /\ threads' = [threads EXCEPT ![t].pc = "captures"]
  /\ UNCHANGED << call, result, built, entered >>

\* lazy_static: a dereference of an initialized RE; while another thread
\* runs the initializer the dereference blocks
StaticDeref(t) ==
  /\ threads[t].pc = "static"
  /\ statics[threads[t].fn].state = "ready"
  /\ threads' = [threads EXCEPT ![t].pc = "captures"]
  /\ UNCHANGED << call, result, built, statics, entered >>

\* RE.is_match(input), or re.captures(input) of from_captures
ThreadCaptures(t) ==
  /\ threads[t].pc = "captures"
  /\ LET re == statics[threads[t].fn].val
         caps == Captures(re, threads[t].input)
     IN threads' =
          IF threads[t].fn = "is_match"
          THEN [threads EXCEPT ![t].pc = "done",
                               ![t].result = Ok(ReIsMatch(re, threads[t].input))]
          ELSE [u \in Threads |->
                  LET a == IF u = t THEN [threads[u] EXCEPT !.pc = "bind"]
                           ELSE threads[u]
                  IN IF u = Frame(t) THEN [a EXCEPT !.caps = caps] ELSE a]
  /\ UNCHANGED << call, result, built, statics, entered >>

\* the rest of from_captures; visit_str wraps its error with custom()
ThreadBind(t) ==
  /\ threads[t].pc = "bind"
  /\ LET r == FromCaps(statics[threads[t].fn].val, threads[t].input,
                       built.item, threads[Frame(t)].caps)
     IN threads' = [threads EXCEPT
                      ![t].pc = "done",
                      ![t].result =
                        IF threads[t].fn = "visit_str" /\ ~r.ok
                        THEN Err(Custom(Display(r.err)))
                        ELSE r]
  /\ UNCHANGED << call, result, built, statics, entered >>

\* the call returns to the thread's caller
ThreadReturn(t) ==
  /\ threads[t].pc = "done"
  /\ threads' = [threads EXCEPT ![t] = Idle]
  /\ UNCHANGED << call, result, built, statics, entered >>

ThreadNext ==
  \E t \in Threads :
    \/ ThreadCall(t)
    \/ StaticInit(t)
    \/ StaticReady(t)
    \/ StaticDeref(t)
    \/ ThreadCaptures(t)
    \/ ThreadBind(t)
    \/ ThreadReturn(t)

ThreadSpec == ThreadInit /\ [][ThreadNext]_vars


(***************************************************************************)
(* Properties                                                              *)
(***************************************************************************)
BindFns == {"try_from", "from_str", "from_captures"}

Binding == call.fn \in BindFns

\* the call runs on one pattern, which matches its input
Matches ==
  /\ call # NoCall
  /\ "re" \in DOMAIN call
  /\ Captures(call.re, call.input) # << >>

\* the number of the group called name, 0 when the pattern has none
GroupIndex(re, name) ==
  LET names == CaptureNames(re)
  IN IF \E i \in 1..Len(names) : names[i] = name
     THEN (CHOOSE i \in 1..Len(names) : names[i] = name) - 1
     ELSE 0

\* the group called name took part in the match of re on s
Participated(re, s, name) ==
  LET g == GroupIndex(re, name)
      caps == Captures(re, s)
  IN g # 0 /\ caps # << >> /\ g \in DOMAIN caps[1]

\* the substring that group captured
GroupText(re, s, name) ==
  LET span == Captures(re, s)[1][GroupIndex(re, name)]
  IN SubStr(s, span.from, span.to)

\* text is in the textual grammar of the scalar type
Coerces(kind, text) ==
  CASE kind \in TextKinds -> TRUE
    [] kind = "char" -> Len(text) = 1
    [] kind \in ParsedKinds -> Parse(kind, text).ok

\* the value text denotes in the scalar type
Coerced(kind, text) ==
  CASE kind \in TextKinds -> text
    [] kind = "char" -> text[1]
    [] kind \in ParsedKinds -> Parse(kind, text).val

FieldsOf(ty) == {ty.fields[i] : i \in 1..Len(ty.fields)}

ScalarOnly(ty) == \A f \in FieldsOf(ty) : f.ty.k \in ScalarKinds

C1_Case ==
  /\ Binding
  /\ Matches
  /\ ScalarOnly(call.ty)
  /\ \A f \in FieldsOf(call.ty) :
       /\ Participated(call.re, call.input, KeyOf(f))
       /\ Coerces(f.ty.k, GroupText(call.re, call.input, KeyOf(f)))

\* C1: when the pattern matches and every field of a scalar-only record has
\* a group of its name that participated and whose text coerces to the
\* field's type, the bind returns a record whose every field is the coercion
\* of exactly the substring that group captured (text fields: the substring
\* itself, owned or borrowed).
C1_ScalarRecordBound ==
  C1_Case =>
    /\ result.ok
    /\ \A f \in FieldsOf(call.ty) :
         result.val[f.ident] =
           Coerced(f.ty.k, GroupText(call.re, call.input, KeyOf(f)))

\* "abc:123" parsed as Test { first: "abc", second: 123 }
C1_Witness ==
  /\ C1_Case
  /\ call.ty = Test
  /\ call.input = << "a", "b", "c", ":", "1", "2", "3" >>
  /\ result.ok
  /\ result.val.second = 123

\* C2: when the pattern does not match the input at all, the bind fails with
\* exactly the no-match error, which carries the input text, and returns no
\* record.
C2_NoMatchError ==
  (Binding /\ ~Matches) =>
    /\ ~result.ok
    /\ result.err = Custom(Msg(NoCapturesFmt, "", call.input, NoName))

\* the pattern "test" against "a 1"
C2_Witness ==
  /\ Binding
  /\ ~Matches
  /\ call.re = TestLiteralRe
  /\ call.input = << "a", " ", "1" >>
  /\ ~result.ok

HasCapture(f) == Participated(call.re, call.input, KeyOf(f))

CapturedText(f) == GroupText(call.re, call.input, KeyOf(f))

IsRecord(ty) == ty.k = "Struct" /\ ty.handle_deserialize

\* the type a present value of the field is resolved as
Wrapped(f) == IF f.ty.k = "Option" THEN f.ty.of ELSE f.ty

RECURSIVE NestedNoMatchTexts(_, _, _)

\* the captured texts of the record fields nested in ty, at any depth, that
\* the nested record's own pattern does not match
NestedNoMatchTexts(ty, re, s) ==
  UNION { IF ~IsRecord(Wrapped(f)) \/ ~Participated(re, s, KeyOf(f))
          THEN {}
          ELSE LET text == GroupText(re, s, KeyOf(f))
                   nested == Wrapped(f)
               IN IF Captures(nested.regex, text) = << >>
                  THEN {text}
                  ELSE NestedNoMatchTexts(nested, nested.regex, text)
          : f \in FieldsOf(ty) }

NoMatchFailure == ~result.ok /\ result.err.fmt = NoCapturesFmt

\* C3 as stated: when the pattern matches, is_match is true and the bind,
\* records with nested record fields included, never fails with the
\* no-match error.
C3_Original ==
  Matches =>
    /\ call.fn = "is_match" => result.val = TRUE
    /\ Binding => ~NoMatchFailure

\* C3 as amended: when the pattern matches, is_match is true and the bind
\* fails with a no-match error only when the text captured for a nested
\* record field is not matched by that nested record's own pattern; the
\* error then carries that captured text.
C3_NoMatchOnlyFromNested ==
  Matches =>
    /\ call.fn = "is_match" => result.val = TRUE
    /\ (Binding /\ NoMatchFailure) =>
         result.err.text \in NestedNoMatchTexts(call.ty, call.re, call.input)

\* Outer matches "a" but Inner does not match the captured "a"
C3_Witness ==
  /\ Binding
  /\ Matches
  /\ call.ty = Outer
  /\ call.input = << "a" >>
  /\ NoMatchFailure
  /\ result.err.text = << "a" >>

OptionalFields(ty) == {f \in FieldsOf(ty) : f.ty.k = "Option"}

\* C4: an optional field whose group did not participate is bound absent,
\* whatever type it wraps, and the bind does not fail for it; one whose
\* group participated is bound present, wrapping the result of resolving the
\* captured text.
C4_OptionalField ==
  (Binding /\ Matches) =>
    \A f \in OptionalFields(call.ty) :
      IF HasCapture(f)
      THEN LET r == DeVal(f.ty.of, KeyOf(f), CapturedText(f))
           IN /\ ~r.ok => ~result.ok
              /\ result.ok => /\ result.val[f.ident].some
                              /\ r.ok
                              /\ result.val[f.ident].v = r.val
      ELSE /\ result.ok => ~result.val[f.ident].some
           /\ ~result.ok => result.err.name # KeyOf(f)

\* "1" parsed as ScalarRec<u8> { x: 1, y: None }
C4_Witness ==
  /\ Binding
  /\ call.ty = ScalarRec("u8")
  /\ call.input = << "1" >>
  /\ ~HasCapture(call.ty.fields[2])
  /\ result.ok
  /\ ~result.val.y.some

Required(f) == f.ty.k # "Option" /\ Len(f.default) = 0

MissingRequired ==
  {i \in 1..Len(call.ty.fields) :
     Required(call.ty.fields[i]) /\ ~HasCapture(call.ty.fields[i])}

FirstMissing ==
  call.ty.fields[CHOOSE i \in MissingRequired : \A j \in MissingRequired : i <= j]

CapturedFields == {f \in FieldsOf(call.ty) : HasCapture(f)}

C5_Case == Binding /\ Matches /\ MissingRequired # {}

MissingFieldError(f) ==
  [kind |-> "MissingValue", fmt |-> "missing value for field {}",
   cause |-> "", text |-> NoText, name |-> KeyOf(f)]

\* C5 as stated: when the pattern matches but a required field has no
\* capture, the bind fails with the missing-field error naming that field
\* (the first declared one).
C5_Original ==
  C5_Case => (~result.ok /\ result.err = MissingFieldError(FirstMissing))

\* C5 as amended: when the pattern matches but a required field has no
\* capture, the bind fails and returns no record: with the missing-field
\* error naming the first declared such field when the text of every
\* captured field converts, and otherwise with the conversion error of a
\* captured field.
C5_MissingRequiredField ==
  C5_Case =>
    /\ ~result.ok
    /\ IF \A f \in CapturedFields : DeVal(f.ty, KeyOf(f), CapturedText(f)).ok
       THEN result.err = MissingFieldError(FirstMissing)
       ELSE \E f \in CapturedFields :
              LET r == DeVal(f.ty, KeyOf(f), CapturedText(f))
              IN ~r.ok /\ result.err = r.err

\* ".+" matches "a 1" and LogEntry gets no capture: missing field foo
C5_Witness ==
  /\ C5_Case
  /\ call.re = AnyRe
  /\ call.ty = LogEntry
  /\ call.input = << "a", " ", "1" >>
  /\ ~result.ok
  /\ result.err.kind = "MissingValue"
  /\ result.err.name = "foo"

\* the targets the scalar coercer parses
ParsedTargets == {"bool", "u8", "u16", "f64", "char"}

\* the captured fields of a parsed scalar type, optional or not, whose text
\* is not in the type's grammar
UnparsableFields ==
  {f \in CapturedFields :
     /\ Wrapped(f).k \in ParsedTargets
     /\ ~Coerces(Wrapped(f).k, CapturedText(f))}

\* C6: when the captured text of a boolean, integer, floating-point or
\* character field does not parse in the type's grammar, the bind fails with
\* a coercion error that carries the field's name, the raw text as captured
\* (untrimmed, case unchanged) and the parse message.
C6_CoercionErrorNamesField ==
  (Binding /\ Matches /\ UnparsableFields # {}) =>
    /\ ~result.ok
    /\ \E f \in UnparsableFields :
         /\ result.err.name = KeyOf(f)
         /\ result.err.text = CapturedText(f)
         /\ result.err.fmt = ParseFmt
         /\ result.err.cause # ""

SequenceFields(ty) == {f \in FieldsOf(ty) : f.ty.k = "Vec"}

\* C7: a sequence field whose captured raw string is empty is bound to the
\* empty sequence.
C7_EmptyRawEmptySequence ==
  (Binding /\ Matches) =>
    \A f \in SequenceFields(call.ty) :
      (HasCapture(f) /\ CapturedText(f) = NoText) =>
        (result.ok /\ Len(result.val[f.ident]) = 0)

RECURSIVE Join(_, _)

\* the segments written one after the other with d between them
Join(segs, d) ==
  IF Len(segs) = 0 THEN NoText
  ELSE IF Len(segs) = 1 THEN segs[1]
  ELSE segs[1] \o << d >> \o Join(Tail(segs), d)

\* segs are the d-free segments of raw, left to right
SegmentsOf(segs, raw, d) ==
  /\ Join(segs, d) = raw
  /\ Len(segs) >= 1
  /\ \A i \in 1..Len(segs) : \A j \in 1..Len(segs[i]) : segs[i][j] # d

\* C8: a non-empty raw string is expanded into its comma-free segments in
\* their order, each coerced on its own to the element type, and the
\* coercion error of an element names the parent field.
C8_CommaSegmentsInOrder ==
  (Binding /\ Matches) =>
    \A f \in SequenceFields(call.ty) :
      (Len(f.delimiter) = 0 /\ HasCapture(f) /\ CapturedText(f) # NoText) =>
        LET segs == Split(CapturedText(f), ",")
            kind == f.ty.of.k
        IN /\ SegmentsOf(segs, CapturedText(f), ",")
           /\ IF \A i \in 1..Len(segs) : Coerces(kind, segs[i])
              THEN /\ result.ok
                   /\ result.val[f.ident] =
                        [i \in 1..Len(segs) |-> Coerced(kind, segs[i])]
              ELSE /\ ~result.ok
                   /\ result.err.name = KeyOf(f)
                   /\ \E i \in 1..Len(segs) :
                        ~Coerces(kind, segs[i]) /\ result.err.text = segs[i]

\* C9: a sequence field that declares a delimiter is split on that
\* delimiter instead of the comma.
C9_DeclaredDelimiterSplits ==
  (Binding /\ Matches) =>
    \A f \in SequenceFields(call.ty) :
      (Len(f.delimiter) = 1 /\ HasCapture(f) /\ CapturedText(f) # NoText) =>
        /\ result.ok
        /\ SegmentsOf(result.val[f.ident], CapturedText(f), f.delimiter[1])

RecordFields(ty) == {f \in FieldsOf(ty) : IsRecord(Wrapped(f))}

\* binding the captured substring alone with the nested type
BoundAlone(f) == from_captures(Wrapped(f).regex, CapturedText(f), Wrapped(f))

C10_Case == Binding /\ Matches /\ RecordFields(call.ty) # {}

\* C10: a record-typed field is bound by matching its captured text against
\* the nested record's own pattern: the outer bind succeeds when every
\* captured field binds alone and no required field lacks a capture, each
\* record field then equals the record bound from its captured substring
\* alone, and an optional record field whose group did not participate is
\* absent.
C10_NestedRecordBound ==
  C10_Case =>
    /\ (\A f \in FieldsOf(call.ty) :
          IF HasCapture(f)
          THEN (IF IsRecord(Wrapped(f)) THEN BoundAlone(f).ok
                ELSE DeVal(f.ty, KeyOf(f), CapturedText(f)).ok)
          ELSE ~Required(f))
         => result.ok
    /\ result.ok =>
         \A f \in RecordFields(call.ty) :
           IF HasCapture(f)
           THEN /\ BoundAlone(f).ok
                /\ IF f.ty.k = "Option"
                   THEN /\ result.val[f.ident].some
                        /\ result.val[f.ident].v = BoundAlone(f).val
                   ELSE result.val[f.ident] = BoundAlone(f).val
           ELSE /\ f.ty.k = "Option"
                /\ ~result.val[f.ident].some

\* "abc:123" parsed as Outer { first: Inner { foo: "abc", bar: 123 },
\* second: None }
C10_Witness ==
  /\ C10_Case
  /\ call.ty = Outer
  /\ call.input = << "a", "b", "c", ":", "1", "2", "3" >>
  /\ result.ok
  /\ result.val.first.foo = << "a", "b", "c" >>
  /\ result.val.first.bar = 123
  /\ ~result.val.second.some

(***************************************************************************)
(* C11                                                                     *)
(***************************************************************************)
\* a bind of a record from a document of another format
FormatBinding == call # NoCall /\ call.fn = "deserialize"

\* the keys of the document's entries
DocKeys == {call.doc[i][1] : i \in 1..Len(call.doc)}

\* the value the document holds under key k
DocValue(k) ==
  call.doc[CHOOSE i \in 1..Len(call.doc) : call.doc[i][1] = k][2]

\* the fields of the bound type that declare a default supplier
DefaultFields == {f \in FieldsOf(call.ty) : Len(f.default) = 1}

\* C11: binding a handle_deserialize record from a structured document gives
\* what binding the flat string with the same key-to-value content through
\* the record's own pattern gives: the same record, or a failure in both; a
\* field is looked up under its renamed key, and a field with a default
\* supplier takes the supplier's value exactly when its key is absent from
\* the document and the document's value otherwise.
C11_SameFieldRulesInBothModes ==
  FormatBinding =>
    LET flat == from_captures(call.re, call.input, call.ty)
    IN /\ result.ok <=> flat.ok
       /\ result.ok => result.val = flat.val
       /\ result.ok =>
            \A f \in DefaultFields :
              result.val[f.ident] =
                IF KeyOf(f) \in DocKeys THEN DocValue(KeyOf(f)).v
                ELSE f.default[1]
       /\ result.ok =>
            \A f \in FieldsOf(call.ty) :
              /\ f.ty.k \in TextKinds /\ KeyOf(f) \in DocKeys
                   => result.val[f.ident] = DocValue(KeyOf(f)).v
              /\ f.ty.k = "Option" /\ KeyOf(f) \notin DocKeys
                   => result.val[f.ident] = None

\* the default supplier's value is bound for an absent key next to renamed
\* fields bound from their keys, in a nested record given as a map
C11_Witness ==
  /\ FormatBinding
  /\ call.ty = FormatsOuter
  /\ result.ok
  /\ call.doc[1][2].s = "map"
  /\ result.val.first.first_attribute = SomeDefault
  /\ result.val.first.second_attribute = 1
  /\ result.val.first.third_attribute = << "a" >>
  /\ ~result.val.second.some
  /\ result.val.third.some

(***************************************************************************)
(* C12 .. C15: enums                                                       *)
(***************************************************************************)
EnumBindFns == {"enum_try_from", "enum_from_str"}

\* a bind of an enum
EnumBinding == call.fn \in EnumBindFns

\* the pattern of the i-th variant of the bound enum matches the input
VariantMatches(i) == Captures(call.ty.variants[i].regex, call.input) # << >>

VariantIndices == 1..Len(call.ty.variants)

\* the first variant in declaration order whose pattern matches the input
FirstMatching ==
  CHOOSE i \in VariantIndices :
    VariantMatches(i) /\ \A j \in 1..(i - 1) : ~VariantMatches(j)

\* C12: when the bind of an enum is given an input that the pattern of some
\* variant matches, it yields the first such variant in declaration order,
\* whether or not the pattern of a later variant matches too.
C12_FirstMatchingVariantYielded ==
  EnumBinding /\ (\E i \in VariantIndices : VariantMatches(i)) =>
    /\ result.ok
    /\ result.val.variant = call.ty.variants[FirstMatching].name

\* the span of the group called name in the match of the i-th variant's
\* pattern, << >> when the group did not participate
VariantGroup(i, name) ==
  LET re == call.ty.variants[i].regex
  IN IF Participated(re, call.input, name)
     THEN << GroupText(re, call.input, name) >>
     ELSE << >>

\* the captured values of the i-th variant, whose pattern matches, bind:
\* every field of a struct variant has a group that participated, the text
\* of a tuple variant's first group parses as the field's type
VariantBinds(i) ==
  LET v == call.ty.variants[i]
      caps == Captures(v.regex, call.input)[1]
  IN CASE v.kind = "Unit" -> TRUE
       [] v.kind = "Named" ->
            \A j \in 1..Len(v.fields) : VariantGroup(i, v.fields[j].ident) # << >>
       [] v.kind = "Unnamed" ->
            /\ 1 \in DOMAIN caps
            /\ Coerces(v.fields[1].ty.k,
                       SubStr(call.input, caps[1].from, caps[1].to))

\* C13: once the pattern of a variant has matched, no later variant is
\* tried: the bind never yields a variant declared after the first matching
\* one, and when the captured values of the first matching variant do not
\* bind, the bind returns a failure.
C13_NoFallThrough ==
  EnumBinding /\ (\E i \in VariantIndices : VariantMatches(i)) =>
    /\ result.ok => result.val.variant = call.ty.variants[FirstMatching].name
    /\ ~VariantBinds(FirstMatching) => ~result.ok /\ result.err.kind # "Panic"

\* the no-variant-matched error
NoVariantMatched == Err(Custom(Msg("Uh Oh", "", NoText, NoName)))

\* C14: when the pattern of no variant matches the input, the bind of an
\* enum fails with the no-variant-matched error and yields no variant; a
\* unit variant whose pattern is the first to match is yielded on that match
\* alone, with no captured value bound.
C14_NoVariantMatched ==
  EnumBinding =>
    /\ (\A i \in VariantIndices : ~VariantMatches(i)) => result = NoVariantMatched
    /\ \A i \in VariantIndices :
         /\ call.ty.variants[i].kind = "Unit"
         /\ VariantMatches(i)
         /\ \A j \in 1..(i - 1) : ~VariantMatches(j)
         => result = Ok([variant |-> call.ty.variants[i].name, val |-> << >>])

\* an input with text that none of Token's patterns matches
C14_Witness ==
  /\ EnumBinding
  /\ call.ty = Token
  /\ call.input = << " ", "," >>
  /\ \A i \in VariantIndices : ~VariantMatches(i)
  /\ result = NoVariantMatched

\* C15: every bind of a validated struct or enum returns: a record or
\* variant, or an error value; it never panics, also when the pattern of a
\* variant matches but a named group did not participate or the captured
\* text does not convert.
C15_NeverPanics ==
  call.fn \in BindFns \cup EnumBindFns =>
    result.ok \/ result.err.kind \in {"Custom", "MissingValue"}

(***************************************************************************)
(* C16                                                                     *)
(***************************************************************************)
\* the result of binding the nested record of field f from the field's
\* captured text, through the nested record's own pattern
NestedBind(f) == from_captures(Wrapped(f).regex, CapturedText(f), Wrapped(f))

\* the captured fields whose value does not resolve
FailingFields ==
  {f \in CapturedFields : ~DeVal(f.ty, KeyOf(f), CapturedText(f)).ok}

\* C16: when the one captured field that fails is a nested record, the outer
\* bind returns the error the nested bind produced on the field's captured
\* text, unmodified: the same kind, field name and message.
C16_NestedErrorUnmodified ==
  Binding /\ Matches =>
    \A f \in FailingFields :
      IsRecord(Wrapped(f)) /\ FailingFields = {f} =>
        /\ ~result.ok
        /\ result.err.kind = NestedBind(f).err.kind
        /\ result.err.name = NestedBind(f).err.name
        /\ Display(result.err) = Display(NestedBind(f).err)

(***************************************************************************)
(* C17                                                                     *)
(***************************************************************************)
\* the i-th declared field fails: its captured text does not resolve, or it
\* is required and has no capture
FieldFails(i) ==
  LET f == call.ty.fields[i]
  IN IF HasCapture(f) THEN f \in FailingFields ELSE Required(f)

\* the error of a failing field
FieldError(f) ==
  IF HasCapture(f) THEN DeVal(f.ty, KeyOf(f), CapturedText(f)).err
  ELSE MissingFieldError(f)

DeclaredIndices == 1..Len(call.ty.fields)

\* the earliest failing field in declaration order
EarliestDeclaredFailing ==
  call.ty.fields[CHOOSE i \in DeclaredIndices :
                   FieldFails(i) /\ \A j \in 1..(i - 1) : ~FieldFails(j)]

\* the field among fs whose group comes first in the pattern
EarliestCaptured(fs) ==
  CHOOSE f \in fs :
    \A g \in fs :
      GroupIndex(call.re, KeyOf(f)) <= GroupIndex(call.re, KeyOf(g))

NamedGroups(re) == {g \in GroupsOf(re) : g[2] # NoName}

\* the pattern declares one named group per field
GroupPerField(re, fields) == Cardinality(NamedGroups(re)) = Len(fields)

\* what validation asks of an item: a struct with named fields whose pattern
\* has one named group per field, or an enum whose every variant with fields
\* has as many named groups as fields
WellFormed(item) ==
  \/ item.k = "Struct" /\ GroupPerField(item.regex, item.fields)
  \/ /\ item.k = "Enum"
     /\ \A i \in 1..Len(item.variants) :
          item.variants[i].kind # "Unit" =>
            GroupPerField(item.variants[i].regex, item.variants[i].fields)

DerivedFns ==
  {"try_from", "from_str", "is_match", "deserialize",
   "enum_try_from", "enum_from_str", "enum_is_match"}

\* C18: the build accepts an item only when it is well formed, every other
\* item is rejected, and every call of a derived function runs on the item
\* of an accepted build, which is well formed.
C18_ValidatedBeforeBind ==
  /\ built # NoBuild => (built.accepted <=> WellFormed(built.item))
  /\ call.fn \in DerivedFns =>
       built.accepted /\ call.ty = built.item /\ WellFormed(call.ty)

\* the build of an enum with a field-bearing variant whose pattern has no
\* named group fails, and nothing is called
C18_Witness ==
  /\ built.item = BadEnum
  /\ ~built.accepted
  /\ ~WellFormed(BadEnum)
  /\ call = NoCall

(***************************************************************************)
(* C19, C20                                                                *)
(***************************************************************************)
\* the capture set the bind in progress hands to from_iter
CaptureSet ==
  NamedCaptures(CaptureNames(call.re), Captures(call.re, call.input)[1],
                call.input, 1)

\* the names of the named groups of the call's pattern that participated
ParticipatingNames ==
  {g[2] : g \in {h \in NamedGroups(call.re) :
                   h[1] \in DOMAIN Captures(call.re, call.input)[1]}}

\* C19: on a successful match the capture set holds exactly one (name,
\* matched substring) pair for each named group that participated, in the
\* order of the groups in the pattern, under unique names; an unnamed group
\* and a named group that did not participate have no pair.
C19_CaptureSetContent ==
  Binding /\ Matches =>
    LET cs == CaptureSet
    IN /\ {cs[i][1] : i \in 1..Len(cs)} = ParticipatingNames
       /\ Len(cs) = Cardinality(ParticipatingNames)
       /\ \A i \in 1..Len(cs) :
            /\ cs[i][1] # NoName
            /\ cs[i][2] = GroupText(call.re, call.input, cs[i][1])
       /\ \A i, j \in 1..Len(cs) :
            i < j => GroupIndex(call.re, cs[i][1]) < GroupIndex(call.re, cs[j][1])

\* Attrs on "1:a": FirstAttribute and the unnamed group around it did not
\* participate; the set holds the two other groups, in pattern order
C19_Witness ==
  /\ Binding
  /\ call.ty = Attrs
  /\ call.input = << "1", ":", "a" >>
  /\ result.ok
  /\ CaptureSet = << << "second_rename", << "1" >> >>,
                     << "ThirdAttribute", << "a" >> >> >>

\* the optional fields of the bound record whose group participated and
\* captured the empty string
EmptyCaptured ==
  {f \in OptionalFields(call.ty) : HasCapture(f) /\ CapturedText(f) = << >>}

\* C20: an optional field whose group participated with the empty string is
\* present, not absent: a text field is bound present with the empty string
\* and the bind does not fail for it; a boolean or numeric field makes the
\* bind fail, with the coercion error of that field when no other field
\* fails.
C20_EmptyCaptureIsPresent ==
  Binding /\ Matches =>
    \A f \in EmptyCaptured :
      /\ f.ty.of.k \in TextKinds =>
           /\ f \notin FailingFields
           /\ FailingFields = {} /\ MissingRequired = {} => result.ok
           /\ result.ok => result.val[f.ident] = Some(<< >>)
      /\ f.ty.of.k \in ParsedKinds =>
           /\ ~result.ok
           /\ FailingFields = {f} =>
                /\ result.err.kind = "Custom"
                /\ result.err.fmt = ParseFmt
                /\ result.err.name = KeyOf(f)
                /\ result.err.text = << >>

\* "1:" gives x = 1 and y the empty string: the u8 behind the option does
\* not parse it
C20_Witness ==
  /\ Binding
  /\ call.ty = ScalarRec("u8")
  /\ call.input = << "1", ":" >>
  /\ EmptyCaptured # {}
  /\ ~result.ok
  /\ result.err.name = "y"
  /\ result.err.text = << >>

(***************************************************************************)
(* C21                                                                     *)
(***************************************************************************)
\* the fields of the bound record without a capture under their own key,
\* while a group whose name differs from the key in letter case only
\* participated
CaseOnlyFields ==
  {f \in FieldsOf(call.ty) :
     /\ ~HasCapture(f)
     /\ \E n \in ParticipatingNames :
          n # KeyOf(f) /\ Lowercase(n) = Lowercase(KeyOf(f))}

\* C21: a capture is bound to a field only when the group's name equals the
\* field's key (the renamed key when there is one) exactly; a group whose
\* name differs from the key in letter case only leaves the field unbound:
\* a field with a default takes the default, and a required field makes the
\* bind fail, as missing when every captured value resolves.
C21_ExactKeyLookup ==
  Binding /\ Matches =>
    \A f \in CaseOnlyFields :
      /\ Len(f.default) = 1 => (result.ok => result.val[f.ident] = f.default[1])
      /\ Len(f.default) = 1 /\ FailingFields = {} /\ MissingRequired = {}
           => result.ok
      /\ Required(f) =>
           /\ ~result.ok
           /\ FailingFields = {} /\ FirstMissing = f
                => result.err = MissingFieldError(f)

\* the group Foo captured "a", the field foo is reported missing
C21_Witness ==
  /\ Binding
  /\ call.ty = CaseRec
  /\ call.input = << "a", ":", "1" >>
  /\ CaseOnlyFields # {}
  /\ result = Err(MissingValue("foo"))

(***************************************************************************)
(* C22, C23: threads and statics                                           *)
(***************************************************************************)
\* how many times Regex::new ran on the pattern text of the derived type
TotalCompiles ==
  statics["try_from"].compiles + statics["from_str"].compiles
    + statics["is_match"].compiles + statics["visit_str"].compiles

\* C22: over any interleaving of calls to the type's try_from, from_str,
\* is_match and nested-string deserialization, the pattern text of the
\* type is compiled at most once, never before the first call that needs
\* it, and a compiled pattern is the type's pattern, unchanged.
C22_CompiledOncePerType ==
  /\ TotalCompiles <= 1
  /\ \A site \in Sites : statics[site].compiles > 0 => site \in entered
  /\ \A site \in Sites :
       statics[site].state = "ready" => statics[site].val = built.item.regex

\* the result of the call of thread t when it runs alone
SoloResult(t) ==
  LET re == built.item.regex
      r == from_captures(re, threads[t].input, built.item)
  IN CASE threads[t].fn = "is_match" -> Ok(ReIsMatch(re, threads[t].input))
       [] threads[t].fn = "visit_str" ->
            IF r.ok THEN r ELSE Err(Custom(Display(r.err)))
       [] OTHER -> r

\* C23: for any interleaving of concurrent binds on the shared compiled
\* patterns, each call returns the result it returns when run alone on
\* the same pattern and input, and the shared patterns stay what was
\* compiled.
C23_BindsAreIndependent ==
  /\ \A t \in Threads :
       threads[t].pc = "done" => threads[t].result = SoloResult(t)
  /\ \A site \in Sites :
       statics[site].state = "ready" => statics[site].val = built.item.regex

\* thread 1 returns the record of "a:1" while thread 2, in the same
\* function and on the same static, is between its match of "a" and its bind
C23_Witness ==
  /\ threads[1].pc = "done"
  /\ threads[1].fn = "try_from"
  /\ threads[1].input = << "a", ":", "1" >>
  /\ threads[1].result.ok
  /\ threads[2].pc = "bind"
  /\ threads[2].fn = "try_from"
  /\ threads[2].input = << "a" >>
====
